---------------------------- MODULE Spec2Model ----------------------------
(***************************************************************************)
(* Model of FitMaskToImage (src/py/fit_mask_to_image.py): the pipeline     *)
(* fix_mask_dimensions and the helpers it calls.                           *)
(*                                                                         *)
(* A tensor is a record [shape, data]: shape is the sequence of axis       *)
(* sizes, data maps every index tuple (0-based, as in the source) to a     *)
(* value.  Values are fixed-point numbers: the integer v stands for the    *)
(* float v / Unit, so 0 is 0.0 and Unit is 1.0.                            *)
(***************************************************************************)
EXTENDS Integers, Sequences, FiniteSets, TLC

\* ------------------------------------------------------------------ bounds
MaxDim == 2
MaxBatch == 2
MaxChannels == 5
MaxMaskChannels == 2
MaxCells == 4
Unit == 2

\* ------------------------------------------------------- tensor primitives
RECURSIVE Indices(_)
Indices(s) ==
    IF s = <<>> THEN {<<>>}
    ELSE {<<a>> \o r : a \in 0..(s[1] - 1), r \in Indices(Tail(s))}

RECURSIVE Flat(_, _)
Flat(i, s) ==
    IF s = <<>> THEN 0
    ELSE Flat(SubSeq(i, 1, Len(i) - 1), SubSeq(s, 1, Len(s) - 1)) * s[Len(s)] + i[Len(i)]

RECURSIVE Product(_)
Product(s) == IF s = <<>> THEN 1 ELSE s[1] * Product(Tail(s))

InsertAt(s, p, v) == SubSeq(s, 1, p - 1) \o <<v>> \o SubSeq(s, p, Len(s))

RemoveAt(s, p) == SubSeq(s, 1, p - 1) \o SubSeq(s, p + 1, Len(s))

NoTensor == [shape |-> <<>>, data |-> <<>>]

\* len(t.shape)
Rank(t) == Len(t.shape)

\* t.unsqueeze(0) is UnsqueezeAt(t, 1); t.unsqueeze(-1) is
\* UnsqueezeAt(t, Rank(t) + 1); t.unsqueeze(1) is UnsqueezeAt(t, 2)
UnsqueezeAt(t, p) ==
    LET s == InsertAt(t.shape, p, 1)
    IN [shape |-> s, data |-> [i \in Indices(s) |-> t.data[RemoveAt(i, p)]]]

\* t.squeeze(1): axis 1 is dropped when its size is 1
Squeeze1(t) ==
    IF t.shape[2] # 1 THEN t
    ELSE LET s == RemoveAt(t.shape, 2)
         IN [shape |-> s, data |-> [i \in Indices(s) |-> t.data[InsertAt(i, 2, 0)]]]

\* t.permute(perm), perm a sequence of 0-based axes
Permute(t, perm) ==
    LET s == [k \in 1..Len(perm) |-> t.shape[perm[k] + 1]]
        Inv(k) == CHOOSE j \in 1..Len(perm) : perm[j] + 1 = k
    IN [shape |-> s,
        data |-> [i \in Indices(s) |-> t.data[[k \in 1..Len(perm) |-> i[Inv(k)]]]]]

\* torch.clamp(t, 0.0, 1.0), on one value and on a tensor
ClampValue(v) == IF v < 0 THEN 0 ELSE IF v > Unit THEN Unit ELSE v

Clamp(t) == [shape |-> t.shape, data |-> [i \in DOMAIN t.data |-> ClampValue(t.data[i])]]

\* mode "nearest" in place of "nearest-exact": floor(d * n_in / n_out)
NearestLegacy(d, n_in, n_out) ==
    LET j == (d * n_in) \div n_out IN IF j < n_in - 1 THEN j ELSE n_in - 1

\* mode="nearest-exact": the source index of destination index d when an axis
\* of size n_in is resampled to size n_out,
\* min(floor((d + 0.5) * n_in / n_out), n_in - 1)
NearestExact(d, n_in, n_out) ==
    LET j == ((2 * d + 1) * n_in) \div (2 * n_out) IN IF j < n_in - 1 THEN j ELSE n_in - 1

\* F.interpolate(t, size=(h, w), mode="nearest-exact") on a [B, C, H, W] tensor
Interpolate(t, h, w) ==
    LET s == <<t.shape[1], t.shape[2], h, w>>
    IN [shape |-> s,
        data |-> [i \in Indices(s) |->
                    t.data[<<i[1], i[2], NearestExact(i[3], t.shape[3], h),
                             NearestExact(i[4], t.shape[4], w)>>]]]

\* t[:, :, :, c]
SelectChannel(t, c) ==
    LET s == SubSeq(t.shape, 1, 3)
    IN [shape |-> s, data |-> [i \in Indices(s) |-> t.data[i \o <<c>>]]]

\* t[:, :, :, :n]
SliceChannels(t, n) ==
    LET m == IF t.shape[4] < n THEN t.shape[4] ELSE n
        s == <<t.shape[1], t.shape[2], t.shape[3], m>>
    IN [shape |-> s, data |-> [i \in Indices(s) |-> t.data[i]]]

\* t.repeat(1, 1, 1, n): the channel axis tiled n times
RepeatChannels(t, n) ==
    LET s == <<t.shape[1], t.shape[2], t.shape[3], t.shape[4] * n>>
    IN [shape |-> s,
        data |-> [i \in Indices(s) |-> t.data[<<i[1], i[2], i[3], i[4] % t.shape[4]>>]]]

\* torch.cat([a, b], dim=-1) needs equal sizes on every other axis
CatFits(a, b) ==
    /\ Len(a.shape) = Len(b.shape)
    /\ SubSeq(a.shape, 1, Len(a.shape) - 1) = SubSeq(b.shape, 1, Len(b.shape) - 1)

Cat(a, b) ==
    LET n == Len(a.shape)
        s == [a.shape EXCEPT ![n] = a.shape[n] + b.shape[n]]
    IN [shape |-> s,
        data |-> [i \in Indices(s) |->
                    IF i[n] < a.shape[n] THEN a.data[i]
                    ELSE b.data[[i EXCEPT ![n] = i[n] - a.shape[n]]]]]


\* ---------------------------------------------------- outcomes of a call
\* A helper either returns a value or raises.  The source raises ValueError
\* everywhere; the kinds are told apart by the raise site.
Ok(v) == [err |-> "", val |-> v]

Raise(e) == [err |-> e, val |-> <<>>]

ShapeError == "ShapeError"

ChannelError == "ChannelError"

DimensionMismatchError == "DimensionMismatchError"

LatentFormatError == "LatentFormatError"

\* torch.cat's own error on tensors whose other axes differ
CatSizeError == "RuntimeError"

\* ------------------------------------------------------------ the helpers
\* _extract_dimensions(image) -> (height, width)
extract_dimensions(img) ==
    IF Rank(img) # 4 THEN Raise(ShapeError)
    ELSE Ok(<<img.shape[2], img.shape[3]>>)

\* _get_mask_dimensions(mask) -> (height, width)
get_mask_dimensions(m) ==
    IF Rank(m) = 4 THEN Ok(<<m.shape[2], m.shape[3]>>)
    ELSE IF Rank(m) = 3 THEN Ok(<<m.shape[2], m.shape[3]>>)
    ELSE IF Rank(m) = 2 THEN Ok(<<m.shape[1], m.shape[2]>>)
    ELSE Raise(ShapeError)

\* _mask_to_image(mask)
mask_to_image(m) ==
    IF Rank(m) = 2 THEN Ok(Clamp(UnsqueezeAt(UnsqueezeAt(m, 1), 4)))
    ELSE IF Rank(m) = 3 THEN Ok(Clamp(UnsqueezeAt(m, 4)))
    ELSE IF Rank(m) = 4 THEN Ok(Clamp(m))
    ELSE Raise(ShapeError)

\* the short-circuit left out: F.interpolate is always called
scaling_always(img, t_width, t_height) == TRUE

\* the test of _scale_image that decides whether F.interpolate is called
scaling_needed(img, t_width, t_height) ==
    ~(img.shape[2] = t_height /\ img.shape[3] = t_width)

\* size=(target_width, target_height) in place of (target_height, target_width)
scale_image_swapped(img, t_width, t_height) ==
    IF ~scaling_needed(img, t_width, t_height) THEN img
    ELSE Permute(Interpolate(Permute(img, <<0, 3, 1, 2>>), t_width, t_height),
                 <<0, 2, 3, 1>>)

\* _scale_image(image, target_width, target_height, method="nearest-exact"),
\* the one method fix_mask_dimensions passes
scale_image(img, t_width, t_height) ==
    IF ~scaling_needed(img, t_width, t_height) THEN img
    ELSE Permute(Interpolate(Permute(img, <<0, 3, 1, 2>>), t_height, t_width),
                 <<0, 2, 3, 1>>)

channel_map == [red |-> 0, green |-> 1, blue |-> 2, alpha |-> 3]

\* the single-channel case left out
image_to_mask_strict(img, channel) ==
    IF channel \notin DOMAIN channel_map THEN Raise(ChannelError)
    ELSE IF img.shape[4] > channel_map[channel]
         THEN Ok(Clamp(SelectChannel(img, channel_map[channel])))
         ELSE Raise(ChannelError)

\* _image_to_mask(image, channel)
image_to_mask(img, channel) ==
    IF channel \notin DOMAIN channel_map THEN Raise(ChannelError)
    ELSE LET channel_idx == channel_map[channel]
         IN IF img.shape[4] = 1 THEN Ok(Clamp(SelectChannel(img, 0)))
            ELSE IF img.shape[4] > channel_idx THEN Ok(Clamp(SelectChannel(img, channel_idx)))
            ELSE Raise(ChannelError)

\* the size check against (width, height) in place of (height, width)
merge_channels_swapped_check(img, m) ==
    LET mask_expanded == UnsqueezeAt(m, Rank(m) + 1)
        first == IF img.shape[4] = 3 THEN img
                 ELSE IF img.shape[4] = 4 THEN SliceChannels(img, 3)
                 ELSE SliceChannels(RepeatChannels(img, 3), 3)
    IN IF SubSeq(m.shape, 2, Len(m.shape)) # <<img.shape[3], img.shape[2]>>
       THEN Raise(DimensionMismatchError)
       ELSE IF ~CatFits(first, mask_expanded) THEN Raise(CatSizeError)
       ELSE Ok(Cat(first, mask_expanded))

\* _merge_channels(image, mask)
merge_channels(img, m) ==
    LET height == img.shape[2]
        width == img.shape[3]
        channels == img.shape[4]
        mask_expanded == UnsqueezeAt(m, Rank(m) + 1)
        first == IF channels = 3 THEN img
                 ELSE IF channels = 4 THEN SliceChannels(img, 3)
                 ELSE SliceChannels(RepeatChannels(img, 3), 3)
    IN IF SubSeq(m.shape, 2, Len(m.shape)) # <<height, width>>
       THEN Raise(DimensionMismatchError)
       ELSE IF ~CatFits(first, mask_expanded) THEN Raise(CatSizeError)
       ELSE Ok(Cat(first, mask_expanded))

\* _scale_mask_for_latent(mask, target_height, target_width)
scale_mask_for_latent(m, t_height, t_width) ==
    IF m.shape[2] = t_height /\ m.shape[3] = t_width THEN m
    ELSE Squeeze1(Interpolate(UnsqueezeAt(m, 2), t_height, t_width))

\* masked_latent = latent in place of latent.copy()
dict_alias(h, ref) == [heap |-> h, ref |-> ref]

\* dict.copy(): a new object holding the same entries; h is the heap of
\* dicts, ref the object copied; returns the new heap and the new reference
dict_copy(h, ref) == [heap |-> Append(h, h[ref]), ref |-> Len(h) + 1]

\* d[key] = v on the object ref
dict_set(h, ref, key, v) == [h EXCEPT ![ref] = (key :> v) @@ h[ref]]

\* the spatial size _apply_mask_to_latent reads from samples
latent_size(samples) == <<samples.shape[3], samples.shape[4]>>

\* _apply_mask_to_latent(latent, mask); returns the heap with it
apply_mask_to_latent(h, ref, m) ==
    IF "samples" \notin DOMAIN h[ref] THEN [err |-> LatentFormatError, heap |-> h, val |-> 0]
    ELSE LET size == latent_size(h[ref]["samples"])
             mask_for_latent == scale_mask_for_latent(m, size[1], size[2])
             c == dict_copy(h, ref)
         IN [err |-> "", heap |-> dict_set(c.heap, c.ref, "noise_mask", mask_for_latent),
             val |-> c.ref]

\* f"{x:.2f}" of x = n / d, in hundredths (round half to even; n / d is a
\* tie only when d has a factor 8, which no size below 8 has)
Format2f(n, d) ==
    LET q == (100 * n) \div d
        r == (100 * n) % d
    IN IF 2 * r > d THEN q + 1
       ELSE IF 2 * r = d THEN q + (q % 2)
       ELSE q

\* the widths left out of the comparison
status_line_height_only(o_width, o_height, t_width, t_height) ==
    IF o_height = t_height
    THEN <<"Status: No scaling needed">>
    ELSE <<"Status: Scaled successfully">>

\* the status line of _generate_info
status_line(o_width, o_height, t_width, t_height) ==
    IF o_height = t_height /\ o_width = t_width
    THEN <<"Status: No scaling needed">>
    ELSE <<"Status: Scaled successfully">>

\* _generate_info(...): the list of lines; a line is its text, or its label
\* followed by the numbers formatted into it
generate_info(o_width, o_height, t_width, t_height, has_latent) ==
    LET scale_w == IF o_width > 0 THEN Format2f(t_width, o_width) ELSE 100
        scale_h == IF o_height > 0 THEN Format2f(t_height, o_height) ELSE 100
        info_lines == << <<"== Fit Mask to Image ==">>,
                         <<"Mask:", o_width, o_height>>,
                         <<"Image:", t_width, t_height>>,
                         <<"Scale:", scale_w, scale_h>>,
                         status_line(o_width, o_height, t_width, t_height) >>
    IN IF has_latent THEN Append(info_lines, <<"Latent: Mask applied">>) ELSE info_lines

\* ------------------------------------------------------------------ state
VARIABLES
    image, mask, latent,        \* the arguments; latent is a reference, 0 for None
    heap,                       \* the dict objects, by reference
    caller,                     \* the arguments as they were when the call began
    pc,                         \* the statement of fix_mask_dimensions to run next
    target_height, target_width, original_height, original_width,
    mask_as_image, scaled_mask_image, intermediate_mask, preview_image,
    fixed_mask, masked_latent, info,
    resampled,                  \* whether _scale_image called F.interpolate
    error,                      \* the error raised, "" for none
    returned,                   \* the tuple returned, <<>> before the return
    lower_image, lower_channel, lower_result   \* one direct call of _image_to_mask

vars == <<image, mask, latent, heap, caller, pc, target_height, target_width,
          original_height, original_width, mask_as_image, scaled_mask_image,
          intermediate_mask, preview_image, fixed_mask, masked_latent, info,
          resampled, error, returned, lower_image, lower_channel, lower_result>>

args == <<image, mask, latent, caller>>

lower_vars == <<lower_image, lower_channel, lower_result>>

\* ----------------------------------------------------------------- inputs
Dims == 1..MaxDim

Batches == 1..MaxBatch

\* a tensor whose elements are pairwise distinct: element i holds its own
\* row-major position
Distinct(s) == [shape |-> s, data |-> [i \in Indices(s) |-> Flat(i, s)]]

\* a tensor whose elements run through -1 .. Unit + 1 (below 0.0, the grid
\* of [0.0, 1.0], above 1.0), starting at seed
Cycle(s, seed) ==
    [shape |-> s, data |-> [i \in Indices(s) |-> ((Flat(i, s) + seed) % (Unit + 3)) - 1]]

Seeds == 0..(Unit + 2)

\* every tensor of shape s over a value below 0.0, one inside and one above 1.0
Fills(s) == {[shape |-> s, data |-> d] : d \in [Indices(s) -> {-1, 1, Unit + 1}]}

ImageShapes ==
    {s \in {<<b, h, w, c>> : b \in Batches, h \in Dims, w \in Dims, c \in 1..MaxChannels} :
        s[1] * s[2] * s[3] <= MaxCells}

BadImageShapes == {<<1, 1, 1>>, <<1, 1, 1, 1, 1>>}

MaskShapes ==
    {<<h, w>> : h \in Dims, w \in Dims}
    \cup {<<b, h, w>> : b \in Batches, h \in Dims, w \in Dims}
    \cup {<<b, h, w, k>> : b \in Batches, h \in Dims, w \in Dims, k \in 1..MaxMaskChannels}

BadMaskShapes == {<<1>>, <<1, 1, 1, 1, 1>>}

Small(shapes) == {s \in shapes : Product(s) <= MaxCells}

\* a latent dict: "samples" is known by its shape alone; its batch and
\* channel sizes are chosen outside Dims so that no axis is mistaken for another
Samples(lh, lw) == [shape |-> <<MaxDim + 1, MaxDim + 2, lh, lw>>]

OldNoiseMask == [shape |-> <<1, 1, 1>>, data |-> [i \in Indices(<<1, 1, 1>>) |-> Unit]]

LatentDicts ==
    {("batch_index" :> <<0>>)}
    \cup {("samples" :> Samples(lh, lw)) @@ ("batch_index" :> <<0>>) : lh \in Dims, lw \in Dims}
    \cup {("samples" :> Samples(lh, lw)) @@ ("batch_index" :> <<0>>)
            @@ ("noise_mask" :> OldNoiseMask) : lh \in Dims, lw \in Dims}

\* the state in which fix_mask_dimensions(img, m, latent) begins; d is the
\* latent dict, or <<>> for latent = None
Call(img, m, d) ==
    /\ image = img
    /\ mask = m
    /\ latent = IF d = <<>> THEN 0 ELSE 1
    /\ heap = IF d = <<>> THEN <<>> ELSE <<d>>
    /\ caller = [image |-> img, mask |-> m, latent |-> d]
    /\ pc = "extract_dimensions"
    /\ target_height = 0 /\ target_width = 0
    /\ original_height = 0 /\ original_width = 0
    /\ mask_as_image = NoTensor /\ scaled_mask_image = NoTensor
    /\ intermediate_mask = NoTensor /\ preview_image = NoTensor
    /\ fixed_mask = NoTensor /\ masked_latent = 0 /\ info = <<>>
    /\ resampled = FALSE /\ error = "" /\ returned = <<>>

NoLower == lower_image = NoTensor /\ lower_channel = "" /\ lower_result = Raise("")

\* every shape, rank and latent, the mask's values running through a cycle
InitShapes ==
    \E si \in ImageShapes \cup BadImageShapes,
       sm \in Small(MaskShapes) \cup BadMaskShapes,
       seed \in Seeds, d \in LatentDicts \cup {<<>>} :
        Call(Distinct(si), Cycle(sm, seed), d)

\* every mask content over three values, on three-channel images
InitFills ==
    \E si \in {s \in ImageShapes : s[4] = 3}, sm \in Small(MaskShapes),
       d \in {<<>>, ("samples" :> Samples(1, MaxDim)) @@ ("batch_index" :> <<0>>)} :
        \E m \in Fills(sm) : Call(Distinct(si), m, d)

Init == (InitShapes \/ InitFills) /\ NoLower

\* ------------------------------------------- fix_mask_dimensions, by statement
\* an exception leaves fix_mask_dimensions at once: nothing is returned
Raised(e) == pc' = "raised" /\ error' = e

locals == <<target_height, target_width, original_height, original_width,
            mask_as_image, scaled_mask_image, intermediate_mask, preview_image,
            fixed_mask, masked_latent, info, resampled>>

\* target_height, target_width = self._extract_dimensions(image)
ExtractDimensions ==
    /\ pc = "extract_dimensions"
    /\ LET r == extract_dimensions(image)
       IN IF r.err # ""
          THEN Raised(r.err) /\ UNCHANGED <<target_height, target_width>>
          ELSE /\ target_height' = r.val[1]
               /\ target_width' = r.val[2]
               /\ pc' = "get_mask_dimensions"
               /\ UNCHANGED error
    /\ UNCHANGED <<args, heap, original_height, original_width, mask_as_image,
                   scaled_mask_image, intermediate_mask, preview_image, fixed_mask,
                   masked_latent, info, resampled, returned, lower_vars>>

\* original_height, original_width = self._get_mask_dimensions(mask)
GetMaskDimensions ==
    /\ pc = "get_mask_dimensions"
    /\ LET r == get_mask_dimensions(mask)
       IN IF r.err # ""
          THEN Raised(r.err) /\ UNCHANGED <<original_height, original_width>>
          ELSE /\ original_height' = r.val[1]
               /\ original_width' = r.val[2]
               /\ pc' = "mask_to_image"
               /\ UNCHANGED error
    /\ UNCHANGED <<args, heap, target_height, target_width, mask_as_image,
                   scaled_mask_image, intermediate_mask, preview_image, fixed_mask,
                   masked_latent, info, resampled, returned, lower_vars>>

\* mask_as_image = self._mask_to_image(mask)
MaskToImage ==
    /\ pc = "mask_to_image"
    /\ LET r == mask_to_image(mask)
       IN IF r.err # ""
          THEN Raised(r.err) /\ UNCHANGED mask_as_image
          ELSE mask_as_image' = r.val /\ pc' = "scale_image" /\ UNCHANGED error
    /\ UNCHANGED <<args, heap, target_height, target_width, original_height,
                   original_width, scaled_mask_image, intermediate_mask, preview_image,
                   fixed_mask, masked_latent, info, resampled, returned, lower_vars>>

\* scaled_mask_image = self._scale_image(mask_as_image, target_width,
\*                                       target_height, method="nearest-exact")
ScaleImage ==
    /\ pc = "scale_image"
    /\ scaled_mask_image' =
           scale_image(mask_as_image, target_width, target_height)
    /\ resampled' = scaling_needed(mask_as_image, target_width, target_height)
    /\ pc' = "image_to_mask_red"
    /\ UNCHANGED <<args, heap, target_height, target_width, original_height,
                   original_width, mask_as_image, intermediate_mask, preview_image,
                   fixed_mask, masked_latent, info, error, returned, lower_vars>>

\* intermediate_mask = self._image_to_mask(scaled_mask_image, channel="red")
ImageToMaskRed ==
    /\ pc = "image_to_mask_red"
    /\ LET r == image_to_mask(scaled_mask_image, "red")
       IN IF r.err # ""
          THEN Raised(r.err) /\ UNCHANGED intermediate_mask
          ELSE intermediate_mask' = r.val /\ pc' = "merge_channels" /\ UNCHANGED error
    /\ UNCHANGED <<args, heap, target_height, target_width, original_height,
                   original_width, mask_as_image, scaled_mask_image, preview_image,
                   fixed_mask, masked_latent, info, resampled, returned, lower_vars>>

\* preview_image = self._merge_channels(image, intermediate_mask)
MergeChannels ==
    /\ pc = "merge_channels"
    /\ LET r == merge_channels(image, intermediate_mask)
       IN IF r.err # ""
          THEN Raised(r.err) /\ UNCHANGED preview_image
          ELSE preview_image' = r.val /\ pc' = "image_to_mask_alpha" /\ UNCHANGED error
    /\ UNCHANGED <<args, heap, target_height, target_width, original_height,
                   original_width, mask_as_image, scaled_mask_image, intermediate_mask,
                   fixed_mask, masked_latent, info, resampled, returned, lower_vars>>

\* fixed_mask = self._image_to_mask(preview_image, channel="alpha")
ImageToMaskAlpha ==
    /\ pc = "image_to_mask_alpha"
    /\ LET r == image_to_mask(preview_image, "alpha")
       IN IF r.err # ""
          THEN Raised(r.err) /\ UNCHANGED fixed_mask
          ELSE fixed_mask' = r.val /\ pc' = "apply_mask_to_latent" /\ UNCHANGED error
    /\ UNCHANGED <<args, heap, target_height, target_width, original_height,
                   original_width, mask_as_image, scaled_mask_image, intermediate_mask,
                   preview_image, masked_latent, info, resampled, returned, lower_vars>>

\* masked_latent = None
\* if latent is not None:
\*     masked_latent = self._apply_mask_to_latent(latent, fixed_mask)
ApplyMaskToLatent ==
    /\ pc = "apply_mask_to_latent"
    /\ IF latent = 0
       THEN masked_latent' = 0 /\ pc' = "generate_info" /\ UNCHANGED <<heap, error>>
       ELSE LET r == apply_mask_to_latent(heap, latent, fixed_mask)
            IN IF r.err # ""
               THEN Raised(r.err) /\ UNCHANGED <<heap, masked_latent>>
               ELSE /\ heap' = r.heap
                    /\ masked_latent' = r.val
                    /\ pc' = "generate_info"
                    /\ UNCHANGED error
    /\ UNCHANGED <<args, target_height, target_width, original_height, original_width,
                   mask_as_image, scaled_mask_image, intermediate_mask, preview_image,
                   fixed_mask, info, resampled, returned, lower_vars>>

\* info = self._generate_info(original_width, original_height, target_width,
\*                            target_height, has_latent=latent is not None)
GenerateInfo ==
    /\ pc = "generate_info"
    /\ info' = generate_info(original_width, original_height, target_width,
                             target_height, latent # 0)
    /\ pc' = "return"
    /\ UNCHANGED <<args, heap, target_height, target_width, original_height,
                   original_width, mask_as_image, scaled_mask_image, intermediate_mask,
                   preview_image, fixed_mask, masked_latent, resampled, error, returned,
                   lower_vars>>

\* return (fixed_mask, preview_image, info, masked_latent)
Return ==
    /\ pc = "return"
    /\ returned' = <<fixed_mask, preview_image, info, masked_latent>>
    /\ pc' = "returned"
    /\ UNCHANGED <<args, heap, locals, error, lower_vars>>

Next ==
    \/ ExtractDimensions
    \/ GetMaskDimensions
    \/ MaskToImage
    \/ ScaleImage
    \/ ImageToMaskRed
    \/ MergeChannels
    \/ ImageToMaskAlpha
    \/ ApplyMaskToLatent
    \/ GenerateInfo
    \/ Return

Spec == Init /\ [][Next]_vars

\* --------------------------------------------- _image_to_mask called alone
ChannelNames == DOMAIN channel_map \cup {"luminance", "Alpha"}

InitLower ==
    /\ image = NoTensor /\ mask = NoTensor /\ latent = 0 /\ heap = <<>>
    /\ caller = [image |-> NoTensor, mask |-> NoTensor, latent |-> <<>>]
    /\ pc = "image_to_mask"
    /\ target_height = 0 /\ target_width = 0
    /\ original_height = 0 /\ original_width = 0
    /\ mask_as_image = NoTensor /\ scaled_mask_image = NoTensor
    /\ intermediate_mask = NoTensor /\ preview_image = NoTensor
    /\ fixed_mask = NoTensor /\ masked_latent = 0 /\ info = <<>>
    /\ resampled = FALSE /\ error = "" /\ returned = <<>>
    /\ \E s \in ImageShapes, seed \in Seeds : lower_image = Cycle(s, seed)
    /\ lower_channel \in ChannelNames
    /\ lower_result = Raise("")

\* lower_result = self._image_to_mask(lower_image, lower_channel)
ImageToMask ==
    /\ pc = "image_to_mask"
    /\ lower_result' = image_to_mask(lower_image, lower_channel)
    /\ pc' = "image_to_mask_done"
    /\ UNCHANGED <<args, heap, locals, error, returned, lower_image, lower_channel>>

NextLower == ImageToMask

SpecLower == InitLower /\ [][NextLower]_vars

\* ------------------------------------------------- vocabulary of the claims
\* the mask's (height, width) and batch, by its rank
MaskSize(m) == IF Rank(m) = 2 THEN <<m.shape[1], m.shape[2]>> ELSE <<m.shape[2], m.shape[3]>>

MaskBatch(m) == IF Rank(m) = 2 THEN 1 ELSE m.shape[1]

ImageSize(img) == <<img.shape[2], img.shape[3]>>

\* the mask's value at batch b, row y, column x (the first channel of a
\* 4-axis mask)
MaskAt(m, b, y, x) ==
    IF Rank(m) = 2 THEN m.data[<<y, x>>]
    ELSE IF Rank(m) = 3 THEN m.data[<<b, y, x>>]
    ELSE m.data[<<b, y, x, 0>>]

RankValid == Rank(image) = 4 /\ Rank(mask) \in {2, 3, 4}

Finished == pc = "returned"

\* the latent, when supplied, is a latent structure: it has "samples"
LatentValid == latent = 0 \/ "samples" \in DOMAIN caller.latent

HasLine(line) == \E k \in DOMAIN info : info[k] = line

\* ------------------------------------------------------------------ claims
\* C1: with a 4-axis image (B,H,W,C), a 3- or 4-axis mask of the same batch
\* and no latent or a latent structure, fix_mask_dimensions raises nothing and
\* returns fixed_mask of shape (B,H,W) and preview_image of shape (B,H,W,4),
\* whatever the mask's size.
C1_OutputShapes ==
    (/\ Rank(image) = 4 /\ Rank(mask) \in {3, 4}
     /\ MaskBatch(mask) = image.shape[1] /\ LatentValid) =>
        /\ error = ""
        /\ pc # "raised"
        /\ Finished =>
            /\ returned[1].shape = <<image.shape[1], image.shape[2], image.shape[3]>>
            /\ returned[2].shape = <<image.shape[1], image.shape[2], image.shape[3], 4>>

\* C1 witness: a returned call whose 4-axis mask is taller and narrower than
\* the image (one axis shrinks, the other grows)
C1_Witness ==
    /\ Finished /\ Rank(mask) = 4 /\ MaskBatch(mask) = image.shape[1]
    /\ MaskSize(mask)[1] > image.shape[2] /\ MaskSize(mask)[2] < image.shape[3]
    /\ returned[1].shape = <<image.shape[1], image.shape[2], image.shape[3]>>

ScaleDone ==
    pc \in {"image_to_mask_red", "merge_channels", "image_to_mask_alpha",
            "apply_mask_to_latent", "generate_info", "return", "returned"}

\* C2: when the mask's (height,width) equals the image's, _scale_image hands
\* back its input without interpolating, and the fixed_mask returned equals
\* the mask clamped to [0,1], element for element, for mask ranks 2, 3, 4.
C2_NoScalingIdentity ==
    (RankValid /\ MaskSize(mask) = ImageSize(image)) =>
        /\ ScaleDone => (~resampled /\ scaled_mask_image = mask_as_image)
        /\ Finished =>
            /\ DOMAIN returned[1].data =
                 Indices(<<MaskBatch(mask), MaskSize(mask)[1], MaskSize(mask)[2]>>)
            /\ \A i \in DOMAIN returned[1].data :
                 returned[1].data[i] = ClampValue(MaskAt(mask, i[1], i[2], i[3]))

\* C2 witness: a returned call on a 2-axis mask of the image's size that
\* holds a value below 0.0 and a value above 1.0
C2_Witness ==
    /\ Finished /\ Rank(mask) = 2 /\ MaskSize(mask) = ImageSize(image)
    /\ \E i \in DOMAIN mask.data : mask.data[i] < 0
    /\ \E i \in DOMAIN mask.data : mask.data[i] > Unit

\* C3: with a latent whose samples have shape (B,C,Lh,Lw), the masked_latent
\* returned is another object than the caller's latent, its noise_mask has
\* spatial size (Lh,Lw), every other key maps to the caller's value, and the
\* caller's latent keeps its keys and values at every step; without a latent
\* masked_latent is None.
C3_LatentProjection ==
    /\ latent # 0 => heap[latent] = caller.latent
    /\ Finished =>
         IF latent = 0 THEN returned[4] = 0
         ELSE /\ returned[4] # 0
              /\ returned[4] # latent
              /\ SubSeq(heap[returned[4]]["noise_mask"].shape, 2, 3) =
                   <<caller.latent["samples"].shape[3], caller.latent["samples"].shape[4]>>
              /\ DOMAIN heap[returned[4]] = DOMAIN caller.latent \cup {"noise_mask"}
              /\ \A k \in DOMAIN caller.latent \ {"noise_mask"} :
                   heap[returned[4]][k] = caller.latent[k]

\* C3 witness: a returned call whose latent already had a noise_mask and
\* whose samples are neither as high nor as wide as the image
C3_Witness ==
    /\ Finished /\ latent # 0
    /\ "noise_mask" \in DOMAIN caller.latent
    /\ caller.latent["samples"].shape[3] # image.shape[2]
    /\ caller.latent["samples"].shape[4] # image.shape[3]
    /\ heap[returned[4]]["noise_mask"] # caller.latent["noise_mask"]

\* the spec's batch invariant: the mask's batch is the image's, or 1
BatchCompatible == MaskBatch(mask) = image.shape[1] \/ MaskBatch(mask) = 1

Ended == pc \in {"raised", "returned"}

\* C4: (the claim as stated, on masks whose batch is the image's or 1) a call
\* whose image has not 4 axes or whose mask has not 2, 3 or 4 axes ends in
\* ShapeError; a call with rank-valid image and mask and a latent without
\* "samples" ends in LatentFormatError; a failing call returns nothing and
\* leaves the caller's image, mask and latent as they were.
C4_ErrorsAsClaimed ==
    Ended =>
        /\ ~RankValid => error = ShapeError
        /\ (RankValid /\ BatchCompatible /\ ~LatentValid) => error = LatentFormatError
        /\ error # "" =>
            /\ returned = <<>>
            /\ image = caller.image /\ mask = caller.mask
            /\ latent # 0 => heap[latent] = caller.latent

\* C5: (the claim as stated) with a 4-axis image of batch B, a mask of 2, 3 or
\* 4 axes whose batch is B or 1, and no latent or a latent structure, the call
\* raises nothing and returns fixed_mask and preview_image of batch B.
C5_BatchAsClaimed ==
    (RankValid /\ BatchCompatible /\ LatentValid) =>
        /\ error = ""
        /\ Finished => (returned[1].shape[1] = image.shape[1]
                        /\ returned[2].shape[1] = image.shape[1])

\* _merge_channels has returned preview_image
MergeDone ==
    pc \in {"image_to_mask_alpha", "apply_mask_to_latent", "generate_info",
            "return", "returned"}

Pixels(img) == Indices(<<img.shape[1], img.shape[2], img.shape[3]>>)

\* C6 (as stated): _merge_channels returns 4 channels, channel 3 the mask;
\* channels 0-2 are the image's channels 0-2 when C is 3 or 4, and for every
\* other C each a copy of the image's first channel; the image is not modified.
C6_FirstChannelAsClaimed ==
    MergeDone =>
        /\ preview_image.shape = <<image.shape[1], image.shape[2], image.shape[3], 4>>
        /\ image = caller.image
        /\ \A i \in Pixels(image) :
            /\ preview_image.data[i \o <<3>>] = intermediate_mask.data[i]
            /\ \A j \in 0..2 :
                 preview_image.data[i \o <<j>>] =
                     IF image.shape[4] \in {3, 4} THEN image.data[i \o <<j>>]
                     ELSE image.data[i \o <<0>>]

\* what _merge_channels computes instead: for every channel count C other than
\* 3 and 4, channel j of the result (j = 0, 1, 2) is the image's channel
\* j mod C: the first channel three times only when C = 1, channels 0, 1, 0
\* when C = 2 and channels 0, 1, 2 when C > 4.
MergeTilesChannels ==
    MergeDone =>
        /\ preview_image.shape = <<image.shape[1], image.shape[2], image.shape[3], 4>>
        /\ image = caller.image
        /\ \A i \in Pixels(image) :
            /\ preview_image.data[i \o <<3>>] = intermediate_mask.data[i]
            /\ \A j \in 0..2 :
                 preview_image.data[i \o <<j>>] =
                     IF image.shape[4] \in {3, 4} THEN image.data[i \o <<j>>]
                     ELSE image.data[i \o <<j % image.shape[4]>>]

\* the index the claims give a channel name
NameIndex(n) ==
    CASE n = "red" -> 0 [] n = "green" -> 1 [] n = "blue" -> 2 [] n = "alpha" -> 3

\* r is the return of channel c of img, clamped to [0,1]
IsClampedChannel(r, img, c) ==
    /\ r.err = ""
    /\ r.val.shape = <<img.shape[1], img.shape[2], img.shape[3]>>
    /\ \A i \in Pixels(img) : r.val.data[i] = ClampValue(img.data[i \o <<c>>])

\* C7: _image_to_mask(t, n) on a tensor of C >= 1 channels raises ChannelError
\* when n is not red, green, blue or alpha (also when C = 1); otherwise it
\* returns channel 0 when C = 1 whatever n is, channel index(n) when
\* C > index(n), both clamped to [0,1], and raises ChannelError when
\* 1 < C <= index(n).
C7_ImageToMask ==
    pc = "image_to_mask_done" =>
        LET C == lower_image.shape[4]
            n == lower_channel
        IN IF n \notin {"red", "green", "blue", "alpha"}
           THEN lower_result.err = ChannelError
           ELSE IF C = 1 THEN IsClampedChannel(lower_result, lower_image, 0)
           ELSE IF C > NameIndex(n)
                THEN IsClampedChannel(lower_result, lower_image, NameIndex(n))
           ELSE lower_result.err = ChannelError

\* C7 witness: "alpha" asked of a 1-channel tensor holding a value outside
\* [0,1]: the sole channel is returned
C7_Witness ==
    /\ pc = "image_to_mask_done" /\ lower_channel = "alpha"
    /\ lower_image.shape[4] = 1 /\ lower_result.err = ""
    /\ \E i \in DOMAIN lower_image.data : lower_image.data[i] > Unit

InfoDone == pc \in {"return", "returned"}

\* v is x = n / d rounded to hundredths
IsHundredths(v, n, d) == 2 * (100 * n - v * d) <= d /\ 2 * (v * d - 100 * n) <= d

\* C8: the info text has "Status: Scaled successfully" exactly when
\* _scale_image interpolated and "Status: No scaling needed" exactly when it
\* short-circuited, for mask ranks 2, 3 and 4; it has "Latent: Mask applied"
\* exactly when masked_latent is not None; and its scale line holds
\* image width / mask width and image height / mask height, each on its own.
C8_InfoReflectsStages ==
    InfoDone =>
        /\ HasLine(<<"Status: Scaled successfully">>) <=> resampled
        /\ HasLine(<<"Status: No scaling needed">>) <=> ~resampled
        /\ HasLine(<<"Latent: Mask applied">>) <=> masked_latent # 0
        /\ \E k \in DOMAIN info :
            /\ Len(info[k]) = 3 /\ info[k][1] = "Scale:"
            /\ IsHundredths(info[k][2], image.shape[3], MaskSize(mask)[2])
            /\ IsHundredths(info[k][3], image.shape[2], MaskSize(mask)[1])

\* C8 witness: a returned call on a 2-axis mask whose width is doubled and
\* whose height is kept: 2.00x by 1.00x, "Scaled successfully", with a latent
C8_Witness ==
    /\ Finished /\ Rank(mask) = 2 /\ resampled /\ masked_latent # 0
    /\ HasLine(<<"Scale:", 200, 100>>)
    /\ HasLine(<<"Status: Scaled successfully">>)

\* sy = min(floor((y + 0.5) * n_mask / n_image), n_mask - 1), in integers
SourceIndex(y, n_mask, n_image) ==
    LET f == ((2 * y + 1) * n_mask) \div (2 * n_image)
    IN IF f < n_mask - 1 THEN f ELSE n_mask - 1

ClampedMaskValues == {ClampValue(mask.data[i]) : i \in DOMAIN mask.data}

\* C9: for a rank-valid image (B,Hi,Wi,C) and a mask of the same batch and
\* size (Hm,Wm), every fixed_mask[b,y,x] lies in [0,1] and equals
\* clamp(mask[b,sy,sx]) with sy = min(floor((y+0.5)*Hm/Hi), Hm-1) and
\* sx = min(floor((x+0.5)*Wm/Wi), Wm-1); so fixed_mask holds no value the
\* clamped mask lacks, and channel 3 of preview_image equals fixed_mask.
C9_NearestExactValues ==
    (Finished /\ RankValid /\ MaskBatch(mask) = image.shape[1]) =>
        /\ DOMAIN returned[1].data = Pixels(image)
        /\ \A i \in Pixels(image) :
            /\ returned[1].data[i] >= 0 /\ returned[1].data[i] <= Unit
            /\ returned[1].data[i] =
                 ClampValue(MaskAt(mask, i[1],
                                   SourceIndex(i[2], MaskSize(mask)[1], image.shape[2]),
                                   SourceIndex(i[3], MaskSize(mask)[2], image.shape[3])))
            /\ returned[1].data[i] \in ClampedMaskValues
            /\ returned[2].data[i \o <<3>>] = returned[1].data[i]

\* C9 witness: a returned call that shrank a full-size mask to one pixel: the
\* mask element at the middle survives, clamped, and differs from the mask's
\* first element
C9_Witness ==
    /\ Finished /\ Rank(mask) = 3 /\ MaskBatch(mask) = image.shape[1]
    /\ MaskSize(mask) = <<MaxDim, MaxDim>> /\ ImageSize(image) = <<1, 1>>
    /\ mask.data[<<0, MaxDim \div 2, MaxDim \div 2>>] > Unit
    /\ returned[1].data[<<0, 0, 0>>] = Unit
    /\ ClampValue(mask.data[<<0, 0, 0>>]) # Unit

\* C10: with a 4-axis image and a mask of 2, 3 or 4 axes, no call reaches the
\* DimensionMismatchError of _merge_channels nor the ChannelError of either
\* _image_to_mask call: the mask handed to _merge_channels has the image's
\* (height,width) and the preview has 4 channels.
C10_DefensiveErrorsUnreached ==
    RankValid =>
        /\ error \notin {DimensionMismatchError, ChannelError}
        /\ pc = "merge_channels" =>
             SubSeq(intermediate_mask.shape, 2, 3) = ImageSize(image)
        /\ MergeDone => preview_image.shape[4] = 4

\* C10 witness: a returned call whose 4-axis mask has two channels and a size
\* that differs from the image's on both axes
C10_Witness ==
    /\ Finished /\ Rank(mask) = 4 /\ mask.shape[4] = 2
    /\ MaskSize(mask)[1] # image.shape[2] /\ MaskSize(mask)[2] # image.shape[3]

=============================================================================
